---- MODULE Spec2Model ----
(***************************************************************************)
(* A model of the bridge event relayer (src/script.py): main(), the        *)
(* BridgeEventListener.start_listening supervision loop, the chain         *)
(* connector, the event decoder and the HTTP delivery client with the      *)
(* retry policy mounted on its session.                                    *)
(*                                                                         *)
(* The chain node and the relayer endpoint are the environment: the node   *)
(* decides whether a connection comes up, when it drops and which log      *)
(* entries a poll returns; the endpoint answers each POST attempt of one   *)
(* delivery according to a script fixed when the delivery starts.          *)
(*                                                                         *)
(* CallSpec applies the functions of the program that compute on numbers,  *)
(* the argument decoding of the parser with the JSON body made of it and   *)
(* convert_eth_unit (src/unit_converter.py), to inputs drawn from bounded  *)
(* sets.                                                                   *)
(***************************************************************************)
EXTENDS Integers, Sequences, FiniteSets, TLC

\* ------------------------------------------------------------ bounds
\* Longest batch one get_new_entries() call returns.
MaxBatch == 2
\* Most attempts of one delivery the endpoint answers with its first answer
\* before it changes to its second.
MaxLead == 2
\* The connect() failures counted before the first successful connect().
MaxFails == 4
\* Most decimal digits of an integer handed to convert_eth_unit.
MaxDigits == 29

\* ------------------------------------------------- program constants
\* Retry(total=5, ...)
RetryTotal == 5
\* Retry(..., backoff_factor=1, ...)
BackoffFactor == 1
\* time.sleep(30) of the except handler
ReconnectCooldown == 30

\* Retry(..., status_forcelist=[502, 503, 504])
status_forcelist == {502, 503, 504}
\* The bytes of a uint256 word of the event's data.
WordBytes == 32
\* decimal.getcontext().prec of the default context the module computes in.
DecimalPrec == 28

VARIABLES
    environ,        \* os.environ restricted to the three required variables
    pc,             \* position of the single thread of control
    web3,           \* BlockchainConnector.web3: "None" or "Web3"
    linkUp,         \* whether the provider of the current web3 object is connected
    contract,       \* BridgeEventListener.contract: "None", "Contract" or "stale"
    event_filter,   \* local event_filter of start_listening: "unset", "latest"
                    \* or "stale"
    reported,       \* value the last is_connected() of the while condition returned
    batch,          \* list returned by the last get_new_entries()
    idx,            \* position of the for loop in batch
    parsed_data,    \* record handed to relay_transaction_data
    script,         \* the endpoint's answers to the attempts of the current delivery
    attempts,       \* POST attempts made by the current delivery
    retriesLeft,    \* Retry.total of the adapter's retry object, as decremented
    slept,          \* backoff sleeps between the attempts of the current delivery
    relayResult,    \* return value of the last relay_transaction_data in this batch
    relayed,        \* transaction hashes handed to relay_transaction_data in this batch
    fault,          \* what ended the last pass through the try block
    leftPolling,    \* whether that pass ended inside the poll loop
    waited,         \* time slept since that pass ended
    everConnected,  \* whether a connect() has returned normally
    connectFails,   \* failed connect() calls before the first successful one
    cooldowns,      \* cooldown sleeps before the first successful connect()
    interrupted,    \* whether a KeyboardInterrupt has been raised
    orphaned,       \* whether the session of a replaced Web3 object is still open
    fn_call,        \* CallSpec: the function called and its arguments
    fn_stage,       \* CallSpec: how far the call has got
    fn_ret          \* CallSpec: what the last step of the call produced

vars == <<environ, pc, web3, linkUp, contract, event_filter, reported, batch, idx,
          parsed_data, script, attempts, retriesLeft, slept, relayResult, relayed,
          fault, leftPolling, waited, everConnected, connectFails, cooldowns,
          interrupted, orphaned, fn_call, fn_stage, fn_ret>>

progVars == <<environ, pc, web3, linkUp, contract, event_filter, reported, batch,
              idx, parsed_data, script, attempts, retriesLeft, slept, relayResult,
              relayed, fault, leftPolling, waited, everConnected, connectFails,
              cooldowns, interrupted, orphaned>>
callVars == <<fn_call, fn_stage, fn_ret>>

connVars == <<web3, linkUp, contract, event_filter>>
pollVars == <<reported, batch, idx, relayed>>
relayVars == <<parsed_data, script, attempts, retriesLeft, slept, relayResult>>
histVars == <<fault, leftPolling, waited>>
countVars == <<everConnected, connectFails, cooldowns>>

\* ------------------------------------------------------ configuration
required_vars == {"SOURCE_CHAIN_WSS_URL", "BRIDGE_CONTRACT_ADDRESS",
                  "DESTINATION_RELAYER_API_URL"}

\* os.getenv(var) of a variable that is not set returns None.
None == "None"

WssValues == {None, "", "wss://node"}
AddressValues == {None, "", "0xBridge", "not-an-address"}
RelayerValues == {None, "", "http://relayer", "https://relayer"}

Environments ==
    { [v \in required_vars |->
          CASE v = "SOURCE_CHAIN_WSS_URL" -> w
            [] v = "BRIDGE_CONTRACT_ADDRESS" -> a
            [] OTHER -> r] :
      w \in WssValues, a \in AddressValues, r \in RelayerValues }

\* Python truthiness of an Optional[str].
Truthy(v) == v # None /\ v # ""

\* The startup check as if written with all() in place of any().
AnyMissing_All(e) == \A v \in required_vars : ~Truthy(e[v])

\* any(not os.getenv(var) for var in required_vars)
AnyMissing(e) == \E v \in required_vars : ~Truthy(e[v])

\* config = {...} of main()
config == [wss_url |-> environ["SOURCE_CHAIN_WSS_URL"],
           contract_address |-> environ["BRIDGE_CONTRACT_ADDRESS"],
           relayer_url |-> environ["DESTINATION_RELAYER_API_URL"]]

\* web3.is_address(value)
is_address(a) == a = "0xBridge"

\* The prefix of the url the session's adapters are looked up by.
UrlPrefix(url) == IF url = "https://relayer" THEN "https://" ELSE "http://"

\* ------------------------------------------------------- event decoder
\* The indexed inputs of the TokensLocked event of BRIDGE_CONTRACT_ABI; a
\* conforming log carries the event signature and one topic for each.
IndexedInputs == {"token", "sender"}
RequiredTopics == 1 + Cardinality(IndexedInputs)

\* A log entry without a transaction hash carries None in its place.
NoHash == 0

\* The shapes of a log entry the node can return at position i of a batch:
\* conforming, one topic short, and without a transaction hash.
EntriesAt(i) ==
    { [transactionHash |-> i, topics |-> RequiredTopics],
      [transactionHash |-> i, topics |-> RequiredTopics - 1],
      [transactionHash |-> NoHash, topics |-> RequiredTopics] }

Batches ==
    UNION { { b \in [1..n -> UNION { EntriesAt(i) : i \in 1..n }] :
                \A i \in 1..n : b[i] \in EntriesAt(i) } : n \in 0..MaxBatch }

\* HexBytes.hex()
Hex(h) == "0x" \o ToString(h)

\* event_log.transactionHash.hex() raises AttributeError on None.
HexRaises(event_log) == event_log.transactionHash = NoHash

\* Whether process_log decodes the entry (it raises on a topic mismatch).
ProcessLogOk(event_log) == event_log.topics = RequiredTopics

\* The empty dict {} parse_tokens_locked_event returns from its except branch.
EmptyDict == [k \in {} |-> 0]

\* bool(dict)
DictTruthy(d) == DOMAIN d # {}

\* The exception classes that do not derive from Exception.
NotExceptions == {"KeyboardInterrupt", "SystemExit", "GeneratorExit"}

\* What the try body of the parser raises for an entry, "none" if nothing:
\* process_log raises LogTopicError on a topic mismatch, and .hex() raises
\* AttributeError on the None of an entry without transaction hash.
TryBodyRaises(event_log) ==
    IF ~ProcessLogOk(event_log) THEN "LogTopicError"
    ELSE IF HexRaises(event_log) THEN "AttributeError"
    ELSE "none"

\* The parser's except clause as if it named ValueError only.
ParserCatches_ValueErrorOnly(cls) == cls = "ValueError"

\* except Exception: whether it catches an exception of class cls.
ParserCatches(cls) == cls \notin NotExceptions

\* Whether parse_tokens_locked_event lets an exception out for an entry.
ParserRaises(event_log) ==
    /\ TryBodyRaises(event_log) # "none"
    /\ ~ParserCatches(TryBodyRaises(event_log))

\* The parser as if its except branch returned a record built from defaults.
parse_tokens_locked_event_Default(event_log) ==
    [transactionHash |-> Hex(event_log.transactionHash), event |-> "TokensLocked"]

\* EventParser.parse_tokens_locked_event: the record of the try body, or
\* the empty dict of the except branch. (The fields of args are modelled by
\* DecodeArgs.)
parse_tokens_locked_event(event_log) ==
    IF TryBodyRaises(event_log) = "none"
    THEN [transactionHash |-> Hex(event_log.transactionHash),
          event |-> "TokensLocked"]
    ELSE EmptyDict

\* ------------------------------------------------------ delivery client
\* What the endpoint can answer to one POST attempt: a response with a
\* status and a body that is JSON or not, no connection at all, or a
\* connection that breaks while the response is read. A 300 carries no
\* Location header, so requests does not follow it and it is the final
\* response.
Response(status, json) == [kind |-> "response", status |-> status, json |-> json]
ConnectError == [kind |-> "connect_error", status |-> 0, json |-> FALSE]
ReadError == [kind |-> "read_error", status |-> 0, json |-> FALSE]

Responses == { Response(200, TRUE), Response(200, FALSE), Response(300, TRUE),
               Response(404, TRUE), Response(500, TRUE), Response(503, TRUE),
               ConnectError, ReadError }

\* The endpoint's behaviour during one delivery: it answers the first
\* `count` attempts with `lead` and every later attempt with `then`.
Script(lead, count, then) == [lead |-> lead, count |-> count, then |-> then]
NoScript == Script(ConnectError, 0, ConnectError)

EndpointScripts ==
    { Script(a, n, b) : a \in Responses, n \in 1..MaxLead, b \in Responses }

\* The endpoint's answer to the k-th attempt of a delivery.
Answer(s, k) == IF k <= s.count THEN s.lead ELSE s.then

\* urllib3's Retry.DEFAULT_ALLOWED_METHODS: Retry(...) is built without
\* allowed_methods, so only these methods are retried on a status or on a
\* read error.
DefaultAllowedMethods == {"HEAD", "GET", "PUT", "DELETE", "OPTIONS", "TRACE"}

\* The retry object of the adapter the session uses for a url prefix:
\* mount('https://', HTTPAdapter(max_retries=retries)) replaces the adapter
\* of https:// only; http:// keeps requests' default adapter, which never
\* retries.
MountedRetry(prefix) ==
    IF prefix = "https://"
    THEN [total |-> RetryTotal, backoff_factor |-> BackoffFactor,
          status_forcelist |-> status_forcelist]
    ELSE [total |-> 0, backoff_factor |-> 0, status_forcelist |-> {}]

\* Retry.is_retry(method, status_code)
is_retry(retry, method, status) ==
    method \in DefaultAllowedMethods /\ status \in retry.status_forcelist

RECURSIVE Pow2(_)
Pow2(n) == IF n <= 0 THEN 1 ELSE 2 * Pow2(n - 1)

\* Retry.get_backoff_time() after n consecutive failed attempts.
get_backoff_time(retry, n) ==
    IF n <= 1 THEN 0
    ELSE LET t == retry.backoff_factor * Pow2(n - 1)
         IN  IF t > 120 THEN 120 ELSE t

\* raise_for_status as if only client errors raised.
raise_for_status_ClientOnly(status) == 400 <= status /\ status < 500

\* Response.raise_for_status() raises HTTPError on a 4xx or 5xx status.
raise_for_status(status) == 400 <= status /\ status < 600

\* One attempt of session.post(...) and what follows it in
\* relay_transaction_data: "retry" (the adapter sleeps and posts again),
\* "True" (line 179), or the class of the exception raised.
AttemptOutcome(resp, retry, left) ==
    CASE resp.kind = "connect_error" ->
            IF left - 1 < 0 THEN "ConnectionError" ELSE "retry"
      [] resp.kind = "read_error" ->
            IF "POST" \in DefaultAllowedMethods /\ left - 1 >= 0
            THEN "retry" ELSE "ReadTimeout"
      [] OTHER ->
            IF is_retry(retry, "POST", resp.status)
            THEN IF left - 1 < 0 THEN "RetryError" ELSE "retry"
            ELSE IF raise_for_status(resp.status) THEN "HTTPError"
            ELSE IF ~resp.json THEN "JSONDecodeError"
            ELSE "True"

\* The caught classes as if the body's decode error were a plain ValueError.
IsRequestException_NoJson(cls) ==
    cls \in {"HTTPError", "ConnectionError", "ReadTimeout", "RetryError"}

\* The classes caught by `except requests.exceptions.RequestException`.
IsRequestException(cls) ==
    cls \in {"HTTPError", "ConnectionError", "ReadTimeout", "RetryError",
             "JSONDecodeError"}

\* ------------------------------------------------------------ numbers
\* A Python int has no width. It is held as its digits in base 256, most
\* significant first and without leading zeros, <<0>> for zero: the bytes of
\* the ABI word it was decoded from. A string of decimal digits is the
\* sequence of its digits.
RECURSIVE Strip(_)
Strip(n) == IF Len(n) > 1 /\ Head(n) = 0 THEN Strip(Tail(n)) ELSE n

\* Division of the number n, written in `base`, by the small number d, from
\* digit i on: quotient digits and remainder.
RECURSIVE ShortDiv(_, _, _, _, _, _)
ShortDiv(n, base, d, i, rem, quot) ==
    IF i > Len(n) THEN [quot |-> quot, rem |-> rem]
    ELSE LET cur == rem * base + n[i]
         IN  ShortDiv(n, base, d, i + 1, cur % d, Append(quot, cur \div d))

\* The digits in base `to` of the number n written in base `from`.
RECURSIVE ToBase(_, _, _, _)
ToBase(n, from, to, acc) ==
    IF n = <<0>> THEN (IF acc = <<>> THEN <<0>> ELSE acc)
    ELSE LET r == ShortDiv(n, from, to, 1, 0, <<>>)
         IN  ToBase(Strip(r.quot), from, to, <<r.rem>> \o acc)

\* str() as if the int went through a float first: what is below the
\* leading bytes that a double's mantissa holds is lost.
str_ViaFloat(n) ==
    ToBase([i \in 1..Len(n) |-> IF i <= 7 THEN n[i] ELSE 0], 256, 10, <<>>)

\* str(n) of an int: its decimal digits.
str(n) == ToBase(n, 256, 10, <<>>)

\* The integer a string of decimal digits denotes.
IntOf(digits) == ToBase(digits, 10, 256, <<>>)

\* The n-byte word with the given first and last byte and zeros between.
Word(n, first, last) ==
    [i \in 1..n |-> IF i = 1 THEN first ELSE IF i = n THEN last ELSE 0]

\* The values of the uint256 fields of the logs decoded.
AmountValues ==
    {<<0>>, <<13, 224, 182, 179, 167, 100, 0, 0>>, [i \in 1..WordBytes |-> 255]}
        \cup { Word(n, f, l) : n \in 1..WordBytes, f \in {1, 255}, l \in {0, 1} }
ChainIdValues == {<<1>>, <<137>>, <<1, 0, 0>>}

\* The args of the record parse_tokens_locked_event returns, for the
\* decoded args of a conforming log.
DecodeArgs(args) ==
    [amount |-> str(args.amount),
     destinationChainId |-> args.destinationChainId]

\* The body session.post(..., json=event_data) sends: a string is sent as
\* its characters, an int as the digits json.dumps writes for it.
JsonBody(args) ==
    [amount |-> args.amount,
     destinationChainId |-> str(args.destinationChainId)]

\* A Decimal: coefficient digits and exponent (the values here are not
\* negative).
Dec(digits, exp) == [error |-> "none", digits |-> digits, exp |-> exp]
ValueError == [error |-> "ValueError", digits |-> <<>>, exp |-> 0]

\* Conversion factors relative to wei.
ETH_UNITS ==
    [wei |-> Dec(<<1>>, 0), kwei |-> Dec(<<1>>, 3), mwei |-> Dec(<<1>>, 6),
     gwei |-> Dec(<<1>>, 9), szabo |-> Dec(<<1>>, 12), finney |-> Dec(<<1>>, 15),
     ether |-> Dec(<<1>>, 18)]

\* str.lower() on the unit names handed in.
lower(unit) == IF unit = "Ether" THEN "ether" ELSE unit
UnitNames == DOMAIN ETH_UNITS \cup {"Ether", "parsec"}

\* digits + 1
RECURSIVE Incr(_)
Incr(d) ==
    IF d = <<>> THEN <<1>>
    ELSE IF d[Len(d)] < 9 THEN [d EXCEPT ![Len(d)] = @ + 1]
    ELSE Append(Incr(SubSeq(d, 1, Len(d) - 1)), 0)

\* The context's rounding of an exact result to DecimalPrec significant
\* digits, ROUND_HALF_EVEN.
Round(d) ==
    LET n == Len(d.digits)
    IN  IF n <= DecimalPrec THEN d
        ELSE LET kept == SubSeq(d.digits, 1, DecimalPrec)
                 rest == SubSeq(d.digits, DecimalPrec + 1, n)
                 more == \E i \in 2..Len(rest) : rest[i] # 0
                 up == \/ rest[1] > 5
                       \/ rest[1] = 5 /\ (more \/ kept[DecimalPrec] % 2 = 1)
                 coeff == IF up THEN Incr(kept) ELSE kept
             IN  IF Len(coeff) > DecimalPrec
                 THEN Dec(SubSeq(coeff, 1, DecimalPrec), d.exp + (n - DecimalPrec) + 1)
                 ELSE Dec(coeff, d.exp + (n - DecimalPrec))

\* digits * k for a one-digit k, from digit i down.
RECURSIVE TimesDigit(_, _, _, _, _)
TimesDigit(x, k, i, carry, acc) ==
    IF i = 0 THEN (IF carry = 0 THEN acc ELSE <<carry>> \o acc)
    ELSE LET prod == x[i] * k + carry
         IN  TimesDigit(x, k, i - 1, prod \div 10, <<prod % 10>> \o acc)

\* Decimal.__mul__ by a factor of ETH_UNITS (one coefficient digit).
Mul(a, b) ==
    Round(Dec(TimesDigit(a.digits, b.digits[1], Len(a.digits), 0, <<>>),
              a.exp + b.exp))

\* Decimal.__truediv__ by a factor of ETH_UNITS: the coefficient of every
\* factor is 1, so the exact quotient has the dividend's digits.
Div(a, b) == Round(Dec(a.digits, a.exp - b.exp))

\* Decimal(str(value)): exact, for an int and for a Decimal.
DecimalOfStr(value) ==
    IF value.type = "int" THEN Dec(str(value.int), 0) ELSE value.decimal

PyInt(n) == [type |-> "int", int |-> n]
PyDecimal(d) == [type |-> "Decimal", decimal |-> d]

\* convert_eth_unit of src/unit_converter.py
convert_eth_unit(value, from_unit, to_unit) ==
    LET from_unit_lower == lower(from_unit)
        to_unit_lower == lower(to_unit)
    IN  IF from_unit_lower \notin DOMAIN ETH_UNITS THEN ValueError
        ELSE IF to_unit_lower \notin DOMAIN ETH_UNITS THEN ValueError
        ELSE LET value_decimal == DecimalOfStr(value)
                 value_in_wei == Mul(value_decimal, ETH_UNITS[from_unit_lower])
             IN  Div(value_in_wei, ETH_UNITS[to_unit_lower])

\* The decimal digits of the integers handed to convert_eth_unit: n digits
\* with the given first, middle and last digits.
Digits(n, first, mid, last) ==
    [i \in 1..n |-> IF i = 1 THEN first ELSE IF i = n THEN last ELSE mid]
ValueDigits ==
    { Digits(n, f, m, l) : n \in 1..MaxDigits, f \in {1, 9}, m \in {0, 9},
                           l \in {0, 1, 5} }

\* The calls CallSpec makes.
NoCall == [fn |-> "none"]
ParseCalls ==
    { [fn |-> "parse", amount |-> a, destinationChainId |-> c] :
          a \in AmountValues, c \in ChainIdValues }
IntValues == { PyInt(IntOf(d)) : d \in ValueDigits }
ConvertCalls ==
    { [fn |-> "convert", value |-> v, from_unit |-> f, to_unit |-> t] :
          v \in IntValues, f \in UnitNames, t \in UnitNames }

\* ------------------------------------------------------------- state
\* The objects of the program before main() has made any of them.
Fresh ==
    /\ web3 = None
    /\ linkUp = FALSE
    /\ contract = None
    /\ event_filter = "unset"
    /\ reported = FALSE
    /\ batch = <<>>
    /\ idx = 0
    /\ parsed_data = EmptyDict
    /\ script = NoScript
    /\ attempts = 0
    /\ retriesLeft = 0
    /\ slept = <<>>
    /\ relayResult = None
    /\ relayed = <<>>
    /\ fault = "none"
    /\ leftPolling = FALSE
    /\ waited = 0
    /\ everConnected = FALSE
    /\ connectFails = 0
    /\ cooldowns = 0
    /\ interrupted = FALSE
    /\ orphaned = FALSE

Init ==
    /\ environ \in Environments
    /\ pc = "main"
    /\ Fresh
    /\ fn_call = NoCall
    /\ fn_stage = "idle"
    /\ fn_ret = <<>>

\* The positions inside `while self.connector.is_connected()`.
PollingPcs == {"while_connected", "get_new_entries", "event_handler",
               "relay_post", "relay_done", "sleep"}

\* The positions inside start_listening.
ListeningPcs == {"connect", "connecting", "is_address", "get_contract",
                 "create_filter", "except_sleep"} \cup PollingPcs

\* BlockchainConnector.is_connected
is_connected == web3 # None /\ linkUp

\* An exception leaves the try block: control is in the except handler.
Escape(f) ==
    /\ pc' = "except_sleep"
    /\ fault' = f
    /\ leftPolling' = (pc \in PollingPcs)
    /\ waited' = 0

\* The locals of one relay_transaction_data call, gone when it is left.
RelayLocalsDropped ==
    /\ parsed_data' = EmptyDict
    /\ script' = NoScript
    /\ attempts' = 0
    /\ retriesLeft' = 0
    /\ slept' = <<>>

\* The for loop as if the handler call were followed by a break.
AfterEntry_Break(b, i) == IF i = 0 /\ Len(b) > 0 THEN "event_handler" ELSE "sleep"

\* Where the for loop over the batch goes after entry i.
AfterEntry(b, i) == IF i < Len(b) THEN "event_handler" ELSE "sleep"

Saturating(n) == IF n < MaxFails THEN n + 1 ELSE n

\* BridgeEventListener.__init__ returns: neither BlockchainConnector nor
\* RelayerService raises ValueError on its url.
ListenerConstructs(cfg) == Truthy(cfg.wss_url) /\ Truthy(cfg.relayer_url)

\* ----------------------------------------------------------- actions
\* main() up to the call of listener.start_listening().
Main ==
    /\ pc = "main"
    /\ pc' = IF AnyMissing(environ) THEN "main_returned"
             ELSE IF ~ListenerConstructs(config) THEN "crashed"
             ELSE "connect"
    /\ UNCHANGED <<environ, callVars, interrupted, orphaned, connVars, pollVars, relayVars, histVars, countVars>>

\* The top of `while True`: self.connector.connect() is called. Nothing of
\* the pass before is carried over: the list the for loop was iterating is
\* referenced by nothing.
ConnectCall ==
    /\ pc = "connect"
    /\ pc' = "connecting"
    /\ fault' = "none"
    /\ leftPolling' = FALSE
    /\ waited' = 0
    /\ batch' = <<>>
    /\ idx' = 0
    /\ relayed' = <<>>
    /\ relayResult' = None
    /\ UNCHANGED <<environ, callVars, interrupted, orphaned, connVars, reported, parsed_data, script, attempts,
                   retriesLeft, slept, countVars>>

ConnectOutcomes == {"connected", "not_connected", "chain_id_raised"}

\* A contract or filter object made from the Web3 object that connect()
\* has just replaced is still referenced, and bound to the old provider.
Outlived(obj, unset) == IF obj = unset THEN unset ELSE "stale"

\* What connect() raises for an outcome: ConnectionError at line 75 when
\* is_connected() is false, the provider's exception when the chain id
\* cannot be read.
ConnectFault(outcome) == IF outcome = "not_connected" THEN "connect" ELSE "chain_id"

\* connect() as if the result of is_connected() were not tested.
ConnectReturn_NoCheck ==
    /\ pc = "connecting"
    /\ contract' = Outlived(contract, None)
    /\ event_filter' = Outlived(event_filter, "unset")
    /\ orphaned' = (orphaned \/ linkUp)
    /\ \E outcome \in ConnectOutcomes :
        /\ web3' = "Web3"
        /\ linkUp' = (outcome # "not_connected")
        /\ IF outcome # "chain_id_raised"
           THEN /\ pc' = "is_address"
                /\ everConnected' = TRUE
                /\ UNCHANGED <<histVars, connectFails>>
           ELSE /\ Escape(ConnectFault(outcome))
                /\ connectFails' = IF everConnected THEN connectFails
                                   ELSE Saturating(connectFails)
                /\ UNCHANGED everConnected
    /\ UNCHANGED <<environ, callVars, interrupted, pollVars, relayVars, cooldowns>>

\* BlockchainConnector.connect: a new Web3 object with a new provider
\* replaces the old one, whose session nothing closes; the call returns
\* only if is_connected() holds and the chain id is read.
ConnectReturn ==
    /\ pc = "connecting"
    /\ contract' = Outlived(contract, None)
    /\ event_filter' = Outlived(event_filter, "unset")
    /\ orphaned' = (orphaned \/ linkUp)
    /\ \E outcome \in ConnectOutcomes :
        /\ web3' = "Web3"
        /\ linkUp' = (outcome # "not_connected")
        /\ IF outcome = "connected"
           THEN /\ pc' = "is_address"
                /\ everConnected' = TRUE
                /\ UNCHANGED <<histVars, connectFails>>
           ELSE /\ Escape(ConnectFault(outcome))
                /\ connectFails' = IF everConnected THEN connectFails
                                   ELSE Saturating(connectFails)
                /\ UNCHANGED everConnected
    /\ UNCHANGED <<environ, callVars, interrupted, pollVars, relayVars, cooldowns>>

\* if not self.connector.web3.is_address(contract_address): raise ValueError
IsAddress ==
    /\ pc = "is_address"
    /\ IF is_address(config.contract_address)
       THEN pc' = "get_contract" /\ UNCHANGED histVars
       ELSE Escape("address")
    /\ UNCHANGED <<environ, callVars, interrupted, orphaned, connVars, pollVars, relayVars, countVars>>

\* get_contract as if the address were checksummed before the connection
\* is tested.
get_contract_ChecksumFirst(connected, address) ==
    IF ~is_address(address) THEN "ValueError"
    ELSE IF ~connected THEN "ConnectionError"
    ELSE "Contract"

\* BlockchainConnector.get_contract: what the call returns or raises.
\* to_checksum_address raises ValueError for a string that is_address
\* rejects.
get_contract(connected, address) ==
    IF ~connected THEN "ConnectionError"
    ELSE IF ~is_address(address) THEN "ValueError"
    ELSE "Contract"

\* self.contract = self.connector.get_contract(contract_address, contract_abi)
GetContract ==
    /\ pc = "get_contract"
    /\ IF get_contract(is_connected, config.contract_address) = "Contract"
       THEN pc' = "create_filter" /\ contract' = "Contract" /\ UNCHANGED histVars
       ELSE Escape("contract") /\ UNCHANGED contract
    /\ UNCHANGED <<environ, callVars, interrupted, orphaned, web3, linkUp, event_filter, pollVars, relayVars, countVars>>

\* self.contract.events.TokensLocked.create_filter(fromBlock='latest'): the
\* node installs the filter or the request fails.
CreateFilter ==
    /\ pc = "create_filter"
    /\ \E installed \in BOOLEAN :
        IF installed
        THEN pc' = "while_connected" /\ event_filter' = "latest" /\ UNCHANGED histVars
        ELSE Escape("filter") /\ UNCHANGED event_filter
    /\ UNCHANGED <<environ, callVars, interrupted, orphaned, web3, linkUp, contract, pollVars, relayVars, countVars>>

\* The condition of `while self.connector.is_connected()`: when it is false
\* the try block ends normally and the outer loop calls connect() again.
WhileConnected ==
    /\ pc = "while_connected"
    /\ reported' = is_connected
    /\ IF is_connected
       THEN pc' = "get_new_entries" /\ UNCHANGED histVars
       ELSE /\ pc' = "connect"
            /\ fault' = "lost"
            /\ leftPolling' = TRUE
            /\ waited' = 0
    /\ UNCHANGED <<environ, callVars, interrupted, orphaned, connVars, batch, idx, relayed, relayVars, countVars>>

\* event_filter.get_new_entries(): a batch of entries, or the request fails.
GetNewEntries ==
    /\ pc = "get_new_entries"
    /\ \/ \E b \in Batches :
            /\ batch' = b
            /\ idx' = 1
            /\ pc' = AfterEntry(b, 0)
            /\ UNCHANGED histVars
       \/ /\ Escape("fetch")
          /\ UNCHANGED <<batch, idx>>
    /\ relayed' = <<>>
    /\ relayResult' = None
    /\ UNCHANGED <<environ, callVars, interrupted, orphaned, connVars, reported, parsed_data, script, attempts,
                   retriesLeft, slept, countVars>>

\* BridgeEventListener._event_handler up to the call of
\* relay_transaction_data: the log line reads the transaction hash, the
\* parser decodes, and an empty result skips the entry.
EventHandler ==
    /\ pc = "event_handler"
    /\ LET event_log == batch[idx]
           parsed == parse_tokens_locked_event(event_log)
       IN  IF HexRaises(event_log)
           THEN /\ Escape("handler")
                /\ UNCHANGED <<idx, relayed, relayVars>>
           ELSE IF ParserRaises(event_log)
           THEN /\ Escape("parser")
                /\ UNCHANGED <<idx, relayed, relayVars>>
           ELSE IF DictTruthy(parsed)
           THEN /\ pc' = "relay_post"
                /\ parsed_data' = parsed
                /\ relayed' = Append(relayed, parsed.transactionHash)
                /\ \E s \in EndpointScripts : script' = s
                /\ attempts' = 0
                /\ retriesLeft' = MountedRetry(UrlPrefix(config.relayer_url)).total
                /\ slept' = <<>>
                /\ UNCHANGED <<idx, relayResult, histVars>>
           ELSE /\ pc' = AfterEntry(batch, idx)
                /\ idx' = idx + 1
                /\ UNCHANGED <<relayed, relayVars, histVars>>
    /\ UNCHANGED <<environ, callVars, interrupted, orphaned, connVars, reported, batch, countVars>>

\* One POST attempt of self.session.post(...) with what the adapter and the
\* rest of relay_transaction_data make of the answer.
RelayPost ==
    /\ pc = "relay_post"
    /\ LET retry == MountedRetry(UrlPrefix(config.relayer_url))
           n == attempts + 1
           outcome == AttemptOutcome(Answer(script, n), retry, retriesLeft)
       IN  /\ attempts' = n
           /\ IF outcome = "retry"
              THEN /\ retriesLeft' = retriesLeft - 1
                   /\ slept' = Append(slept, get_backoff_time(retry, n))
                   /\ UNCHANGED <<pc, relayResult, histVars>>
              ELSE IF outcome = "True" \/ IsRequestException(outcome)
              THEN /\ pc' = "relay_done"
                   /\ relayResult' = outcome
                   /\ UNCHANGED <<retriesLeft, slept, histVars>>
              ELSE /\ Escape("handler")
                   /\ relayResult' = outcome
                   /\ UNCHANGED <<retriesLeft, slept>>
    /\ UNCHANGED <<environ, callVars, interrupted, orphaned, connVars, pollVars, parsed_data, script, countVars>>

\* relay_transaction_data and _event_handler return; the for loop advances.
HandlerReturn ==
    /\ pc = "relay_done"
    /\ pc' = AfterEntry(batch, idx)
    /\ idx' = idx + 1
    /\ RelayLocalsDropped
    /\ UNCHANGED <<environ, callVars, interrupted, orphaned, connVars, reported, batch, relayed, relayResult,
                   histVars, countVars>>

\* time.sleep(5) after the batch is drained.
PollSleep ==
    /\ pc = "sleep"
    /\ pc' = "while_connected"
    /\ batch' = <<>>
    /\ idx' = 0
    /\ relayed' = <<>>
    /\ relayResult' = None
    /\ UNCHANGED <<environ, callVars, interrupted, orphaned, connVars, reported, parsed_data, script, attempts,
                   retriesLeft, slept, histVars, countVars>>

\* The except handler as if time.sleep(30) were missing.
ExceptSleep_NoSleep ==
    /\ pc = "except_sleep"
    /\ pc' = "connect"
    /\ RelayLocalsDropped
    /\ UNCHANGED <<environ, callVars, interrupted, orphaned, connVars, pollVars, relayResult, histVars, countVars>>

\* The except handler as if it caught ConnectionError alone: the ValueError
\* of an invalid address reaches main(), which logs it and returns.
ExceptSleep_ConnectionErrorOnly ==
    /\ pc = "except_sleep"
    /\ pc' = IF fault = "address" THEN "listener_returned" ELSE "connect"
    /\ waited' = waited + ReconnectCooldown
    /\ cooldowns' = IF everConnected THEN cooldowns ELSE Saturating(cooldowns)
    /\ RelayLocalsDropped
    /\ UNCHANGED <<environ, callVars, interrupted, orphaned, connVars, pollVars, relayResult, fault, leftPolling,
                   everConnected, connectFails>>

\* The except handler as if the exception were caught inside the for loop:
\* after the sleep the loop goes on with the next entry of the batch.
ExceptSleep_ResumeBatch ==
    /\ pc = "except_sleep"
    /\ pc' = IF fault = "handler" THEN AfterEntry(batch, idx) ELSE "connect"
    /\ idx' = IF fault = "handler" THEN idx + 1 ELSE idx
    /\ waited' = waited + ReconnectCooldown
    /\ cooldowns' = IF everConnected THEN cooldowns ELSE Saturating(cooldowns)
    /\ RelayLocalsDropped
    /\ UNCHANGED <<environ, callVars, interrupted, orphaned, connVars, reported, batch, relayed, relayResult, fault,
                   leftPolling, everConnected, connectFails>>

\* The except handler: time.sleep(30), then finally, then the loop's top.
ExceptSleep ==
    /\ pc = "except_sleep"
    /\ pc' = "connect"
    /\ waited' = waited + ReconnectCooldown
    /\ cooldowns' = IF everConnected THEN cooldowns ELSE Saturating(cooldowns)
    /\ RelayLocalsDropped
    /\ UNCHANGED <<environ, callVars, interrupted, orphaned, connVars, pollVars, relayResult, fault, leftPolling,
                   everConnected, connectFails>>

\* The node or the network drops the connection of the current provider.
LinkDrop ==
    /\ pc \in ListeningPcs \ {"connect", "connecting", "except_sleep"}
    /\ linkUp
    /\ linkUp' = FALSE
    /\ UNCHANGED <<environ, callVars, interrupted, orphaned, pc, web3, contract, event_filter, pollVars, relayVars,
                   histVars, countVars>>

\* The except clause of start_listening as if it were a bare `except:`.
ListenerCatches_Bare(cls) == TRUE

\* except (ConnectionError, ValueError, Exception): whether it catches an
\* exception of class cls.
ListenerCatches(cls) ==
    cls \in {"ConnectionError", "ValueError"} \/ cls \notin NotExceptions

\* KeyboardInterrupt is raised in the thread, anywhere in start_listening.
\* Inside the try block the except clause is asked; what it does not catch,
\* and what is raised in the handler's own sleep, leaves start_listening for
\* main(), which logs the shutdown. The frames left are unwound.
Interrupt ==
    /\ pc \in ListeningPcs
    /\ interrupted' = TRUE
    /\ RelayLocalsDropped
    /\ IF pc # "except_sleep" /\ ListenerCatches("KeyboardInterrupt")
       THEN /\ Escape("interrupt")
            /\ UNCHANGED <<event_filter, batch, idx, relayed, relayResult>>
       ELSE /\ pc' = "shutdown"
            /\ event_filter' = "unset"
            /\ batch' = <<>>
            /\ idx' = 0
            /\ relayed' = <<>>
            /\ relayResult' = None
            /\ UNCHANGED histVars
    /\ UNCHANGED <<environ, callVars, orphaned, web3, linkUp, contract, reported, countVars>>

\* The node closes a session that the program has lost its reference to.
OrphanClosed ==
    /\ pc \in ListeningPcs \ {"connect", "connecting", "except_sleep"}
    /\ orphaned
    /\ orphaned' = FALSE
    /\ UNCHANGED <<environ, callVars, interrupted, pc, connVars, pollVars, relayVars,
                   histVars, countVars>>

\* The steps of the program itself.
Step ==
    \/ Main
    \/ ConnectCall
    \/ ConnectReturn
    \/ IsAddress
    \/ GetContract
    \/ CreateFilter
    \/ WhileConnected
    \/ GetNewEntries
    \/ EventHandler
    \/ RelayPost
    \/ HandlerReturn
    \/ PollSleep
    \/ ExceptSleep

Next == Step \/ LinkDrop \/ OrphanClosed \/ Interrupt

Spec == Init /\ [][Next]_vars

\* The thread is always scheduled: every sleep ends and every network call
\* returns or raises within its timeout.
LiveSpec == Spec /\ WF_vars(Step)

\* ---------------------------------------------------- function calls
\* The module is imported and one function is called; main() does not run.
CallInit ==
    /\ environ = [v \in required_vars |-> None]
    /\ pc = "imported"
    /\ Fresh
    /\ fn_call \in ParseCalls \cup ConvertCalls
    /\ fn_stage = "called"
    /\ fn_ret = <<>>

\* The args of the parser's record are built from the decoded log.
ParseArgs ==
    /\ fn_call.fn = "parse"
    /\ fn_stage = "called"
    /\ fn_stage' = "parsed"
    /\ fn_ret' = DecodeArgs(fn_call)
    /\ UNCHANGED <<progVars, fn_call>>

\* relay_transaction_data posts the record as the JSON body.
PostJson ==
    /\ fn_call.fn = "parse"
    /\ fn_stage = "parsed"
    /\ fn_stage' = "posted"
    /\ fn_ret' = JsonBody(fn_ret)
    /\ UNCHANGED <<progVars, fn_call>>

\* convert_eth_unit returns or raises.
ConvertCall ==
    /\ fn_call.fn = "convert"
    /\ fn_stage = "called"
    /\ fn_stage' = "returned"
    /\ fn_ret' = convert_eth_unit(fn_call.value, fn_call.from_unit, fn_call.to_unit)
    /\ UNCHANGED <<progVars, fn_call>>

CallNext == ParseArgs \/ PostJson \/ ConvertCall

CallSpec == CallInit /\ [][CallNext]_vars

\* ------------------------------------------------------------ claims
R200 == Response(200, TRUE)
R404 == Response(404, TRUE)
R503 == Response(503, TRUE)

\* C1: every connect() that follows a Polling phase is preceded by the
\* 30-unit cooldown, whether Polling ended by a failed liveness check or by
\* an exception.
C1_CooldownAfterPolling ==
    (pc = "connect" /\ leftPolling) => waited >= ReconnectCooldown

\* C2: a delivery that fails, for whatever reason, ends in the return of
\* relay_transaction_data and the for loop goes on to the next entry of the
\* same batch with the connection, the contract and the filter as they were;
\* control never passes to the except handler.
C2_DeliveryFailureKeepsPolling ==
    [][ /\ (pc = "relay_post" /\ pc' \notin {"relay_post", "shutdown"}
                /\ relayResult' # "True")
            => (pc' = "relay_done" /\ UNCHANGED <<connVars, batch, idx>>)
        /\ (pc = "relay_done" /\ pc' \notin {"relay_done", "shutdown"})
            => (pc' = AfterEntry(batch, idx) /\ idx' = idx + 1
                    /\ UNCHANGED <<connVars, batch>>) ]_vars

\* C2 witness: the delivery of the first entry failed and the handler is at
\* the second entry of the same batch.
C2_Witness ==
    /\ pc = "event_handler"
    /\ idx = 2
    /\ relayed = <<Hex(1)>>
    /\ relayResult \in {"HTTPError", "ConnectionError", "ReadTimeout",
                        "RetryError", "JSONDecodeError"}

\* A log entry that does not conform: a topic is missing or it carries no
\* transaction hash.
Malformed(event_log) ==
    event_log.topics # RequiredTopics \/ event_log.transactionHash = NoHash

\* C3: handling a malformed entry makes no delivery call, stays in Polling
\* and leaves the for loop at the next entry of the batch.
C3_MalformedEntrySkipped ==
    [][ (pc = "event_handler" /\ Malformed(batch[idx])
            /\ (pc' # pc \/ idx' # idx) /\ pc' # "shutdown")
        => (pc' = AfterEntry(batch, idx) /\ idx' = idx + 1
                /\ relayed' = relayed) ]_vars

\* C4: one delivery makes at most 5 POST attempts, and an attempt is
\* repeated only after a 502/503/504 response or a connection-level failure.
C4_AtMostFiveAttempts ==
    /\ attempts <= 5
    /\ \A k \in 1..(attempts - 1) :
          LET r == Answer(script, k)
          IN  \/ r.kind \in {"connect_error", "read_error"}
              \/ r.status \in {502, 503, 504}

\* C5: against an endpoint answering 503, 503, 200 the delivery succeeds
\* with exactly three attempts and a longer wait before the third attempt
\* than before the second.
C5_SucceedsOnThirdAttempt ==
    (pc = "relay_done" /\ script = Script(R503, 2, R200))
        => /\ relayResult = "True"
           /\ attempts = 3
           /\ Len(slept) = 2
           /\ slept[2] > slept[1]

\* C6: a first answer with a failure status other than 502/503/504 ends the
\* delivery after exactly one attempt, reported as a failure.
C6_NonTransientFailsOnce ==
    (pc = "relay_done" /\ Answer(script, 1).kind = "response"
        /\ Answer(script, 1).status >= 400
        /\ Answer(script, 1).status \notin {502, 503, 504})
        => (attempts = 1 /\ relayResult = "HTTPError")

\* C6 witness: a delivery answered 404 has returned after one attempt.
C6_Witness ==
    /\ pc = "relay_done"
    /\ Answer(script, 1) = R404
    /\ attempts = 1
    /\ relayResult = "HTTPError"

\* C7 as claimed: three failed connect() calls before the first successful
\* one make exactly two cooldown waits.
C7_TwoCooldowns ==
    (everConnected /\ connectFails = 3) => cooldowns = 2

\* C7 as amended: three failed connect() calls before the first successful
\* one make exactly three cooldown waits, one after each failure.
C7_ThreeCooldowns ==
    (everConnected /\ connectFails = 3) => cooldowns = 3

\* C7 witness: connect() has just succeeded after three failures.
C7_Witness ==
    pc = "is_address" /\ everConnected /\ connectFails = 3 /\ cooldowns = 3

\* C8: start_listening never returns on its own, and once a fault or a lost
\* connection has ended a pass through the try block, connect() is called
\* again unless the process is interrupted first.
C8_AlwaysReconnects ==
    /\ [](pc # "listener_returned")
    /\ (fault # "none") ~> (pc \in {"connecting", "shutdown"})

\* C8 witness: connect() is called again after a pass that had reached the
\* poll loop.
C8_Witness ==
    pc = "connecting" /\ everConnected /\ event_filter = "latest" /\ fault = "none"

\* C9: with a required setting absent or empty, main() returns before the
\* listener exists: nothing is connected, fetched or delivered.
C9_MissingSettingAborts ==
    (\E v \in required_vars : environ[v] \in {None, ""})
        => /\ pc \in {"main", "main_returned"}
           /\ web3 = None
           /\ ~everConnected /\ connectFails = 0 /\ cooldowns = 0
           /\ batch = <<>> /\ relayed = <<>> /\ attempts = 0

\* C9 witness: main() has returned on a missing setting.
C9_Witness ==
    /\ pc = "main_returned"
    /\ environ["BRIDGE_CONTRACT_ADDRESS"] = ""
    /\ environ["SOURCE_CHAIN_WSS_URL"] = "wss://node"

\* C10: each record handed to relay_transaction_data is the decoding of one
\* conforming entry of the batch fetched after is_connected() reported the
\* connection live on the current filter, and no entry is handed over twice.
C10_RelayedFromFetched ==
    /\ \A k \in 1..Len(relayed) :
          \E i \in 1..Len(batch) :
             /\ i <= idx
             /\ batch[i].topics = RequiredTopics
             /\ batch[i].transactionHash # NoHash
             /\ relayed[k] = Hex(batch[i].transactionHash)
    /\ \A k, l \in 1..Len(relayed) : k # l => relayed[k] # relayed[l]
    /\ pc \in {"event_handler", "relay_post", "relay_done"}
          => (reported /\ event_filter = "latest")
    /\ pc \in {"relay_post", "relay_done"}
          => /\ parsed_data = [transactionHash |-> Hex(batch[idx].transactionHash),
                               event |-> "TokensLocked"]
             /\ relayed # <<>>
             /\ relayed[Len(relayed)] = parsed_data.transactionHash

\* C10 witness: both entries of a batch have been handed over, each once.
C10_Witness ==
    pc = "relay_done" /\ relayed = <<Hex(1), Hex(2)>>

\* The positions of the for loop over a fetched batch.
HandlerPcs == {"event_handler", "relay_post", "relay_done"}

\* C11: the entries of a batch are handled one at a time in the order of the
\* batch, and get_new_entries() is called only when no entry of a batch is
\* left to handle and no delivery is in progress.
C11_SynchronousDelivery ==
    /\ pc \in {"while_connected", "get_new_entries"}
          => (batch = <<>> /\ attempts = 0 /\ parsed_data = EmptyDict)
    /\ pc = "sleep" => (idx = Len(batch) + 1 /\ attempts = 0)
    /\ pc \in HandlerPcs => idx \in 1..Len(batch)
    /\ \A k, l \in 1..Len(relayed) :
          \A i, j \in 1..Len(batch) :
             (k < l /\ relayed[k] = Hex(batch[i].transactionHash)
                    /\ relayed[l] = Hex(batch[j].transactionHash)) => i < j

\* C11 witness: a batch of two entries has been delivered in order and the
\* loop is at its sleep.
C11_Witness ==
    pc = "sleep" /\ Len(batch) = 2 /\ idx = 3 /\ relayed = <<Hex(1), Hex(2)>>

\* C20: the handler is entered only from the fetch of a batch or from the
\* return of the handler of the entry before; once an exception has left the
\* try block the next step is the top of the loop, so what was left of the
\* batch is never handled.
C20_RestOfBatchAbandoned ==
    [][ /\ (pc' = "event_handler" /\ pc # "event_handler")
            => (pc \in {"get_new_entries", "relay_done"}
                   /\ event_filter' = "latest")
        /\ (pc = "except_sleep" /\ pc' # pc)
            => pc' \in {"connect", "shutdown"}
        /\ (pc = "connect" /\ pc' = "connecting") => batch' = <<>> ]_vars

\* C20 witness: an exception escaped at the first of two entries, the
\* cooldown is over and the loop is at its top again.
C20_Witness ==
    /\ pc = "connect"
    /\ fault = "handler"
    /\ Len(batch) = 2
    /\ idx = 1
    /\ waited = ReconnectCooldown

\* C12: a KeyboardInterrupt raised anywhere in start_listening ends the
\* program in main()'s shutdown branch, and nothing runs after it: no state
\* after the interrupt is at a connect, a fetch or a delivery.
C12_InterruptShutsDown == interrupted => pc = "shutdown"

\* C12 witness: the interrupt arrived during the cooldown sleep of the
\* except handler, after an exception had left the poll loop.
C12_Witness ==
    interrupted /\ pc = "shutdown" /\ fault = "handler" /\ leftPolling /\ waited = 0

\* The transport sessions the connector has opened that are still open.
LiveSessions ==
    (IF is_connected THEN 1 ELSE 0) + (IF orphaned THEN 1 ELSE 0)

\* C13: the connector never has more than one open transport session.
C13_AtMostOneSession == LiveSessions <= 1

\* C14: connect() returns normally only with a connected provider; a failed
\* liveness test leaves it as a ConnectionError (the fault of line 75), which
\* takes the loop to the except handler and from there to the next connect().
C14_ConnectChecksLiveness ==
    [][ /\ (pc = "connecting" /\ pc' = "is_address") => (web3' = "Web3" /\ linkUp')
        /\ (pc = "connecting" /\ pc' # pc /\ ~linkUp' /\ ~interrupted')
              => (pc' = "except_sleep" /\ fault' = "connect")
        /\ (pc = "except_sleep" /\ pc' # pc /\ fault = "connect")
              => pc' \in {"connect", "shutdown"}
        /\ (pc' = "get_contract" /\ pc # pc') => pc = "is_address" ]_vars

\* C14 witness: after a session that worked, a connect() found the provider
\* not connected and the loop is in the except handler.
C14_Witness ==
    pc = "except_sleep" /\ fault = "connect" /\ everConnected /\ ~is_connected

\* C15: with a malformed contract address no pass creates a contract or a
\* filter, polls or delivers, and a pass whose connect() returned ends in the
\* validation failure followed by the cooldown; get_contract raises
\* ConnectionError when not connected whatever the address, and ValueError
\* when connected with a malformed address.
C15_MalformedAddressNeverPolls ==
    /\ environ["BRIDGE_CONTRACT_ADDRESS"] = "not-an-address" =>
          /\ pc \notin {"get_contract", "create_filter"} \cup PollingPcs
          /\ contract = None
          /\ event_filter = "unset"
          /\ relayed = <<>>
          /\ attempts = 0
          /\ fault \in {"none", "connect", "chain_id", "address"}
          /\ (pc = "connect" /\ fault # "none") => waited = ReconnectCooldown
    /\ \A a \in AddressValues : get_contract(FALSE, a) = "ConnectionError"
    /\ get_contract(TRUE, "not-an-address") = "ValueError"
    /\ pc = "create_filter" => contract = "Contract"

\* C15 witness: a pass with a malformed address has ended in the validation
\* failure and its cooldown is over.
C15_Witness ==
    /\ environ["BRIDGE_CONTRACT_ADDRESS"] = "not-an-address"
    /\ pc = "connect"
    /\ fault = "address"
    /\ waited = ReconnectCooldown

\* C16: parse_tokens_locked_event lets no exception out: no pass ends in an
\* exception of the parser, and for every entry shape whose decoding fails
\* (a topic short, or no transaction hash) it returns the empty dict, so that
\* an entry a topic short that has been handled was not relayed.
C16_ParserNeverRaises ==
    /\ fault # "parser"
    /\ \A i \in 1..MaxBatch : \A e \in EntriesAt(i) :
          /\ ~ParserRaises(e)
          /\ (e.topics < RequiredTopics \/ e.transactionHash = NoHash)
                => parse_tokens_locked_event(e) = EmptyDict
    /\ \A i \in 1..Len(batch) :
          (i < idx /\ batch[i].topics < RequiredTopics)
             => Hex(batch[i].transactionHash) \notin { relayed[k] : k \in 1..Len(relayed) }

\* C16 witness: an entry a topic short has been handled, nothing was relayed
\* and no exception has left the loop.
C16_Witness ==
    /\ pc = "sleep"
    /\ Len(batch) = 1
    /\ batch[1].topics < RequiredTopics
    /\ relayed = <<>>
    /\ fault = "none"

\* C17: relay_transaction_data returns True exactly when the final response
\* has a 2xx status and a parseable body, and every other outcome is the
\* return value False, never an exception that leaves the call.
C17_SuccessIffParseable2xx ==
    /\ pc = "relay_done" =>
          LET final == Answer(script, attempts)
          IN  (relayResult = "True") <=>
                 (final.kind = "response" /\ final.status \in 200..299 /\ final.json)
    /\ (pc = "except_sleep" /\ fault = "handler") => attempts = 0

TenPow18 == <<13, 224, 182, 179, 167, 100, 0, 0>>
TenPow18Digits == [i \in 1..19 |-> IF i = 1 THEN 1 ELSE 0]
TwoPow200 == Word(26, 1, 0)
TwoPow200Digits ==
    <<1,6,0,6,9,3,8,0,4,4,2,5,8,9,9,0,2,7,5,5,4,1,9,6,2,0,9,2,3,4,1,
      1,6,2,6,0,2,5,2,2,2,0,2,9,9,3,7,8,2,7,9,2,8,3,5,3,0,1,3,7,6>>

\* C18: the amount of the decoded record and of the JSON body is the decimal
\* string of exactly the integer amount of the log (2^200 and 10^18 digit
\* for digit), and destinationChainId is the log's integer in the record and
\* that integer's digits in the body.
C18_AmountExact ==
    (fn_call.fn = "parse" /\ fn_stage \in {"parsed", "posted"}) =>
        /\ IntOf(fn_ret.amount) = fn_call.amount
        /\ fn_call.amount = TwoPow200 => fn_ret.amount = TwoPow200Digits
        /\ fn_call.amount = TenPow18 => fn_ret.amount = TenPow18Digits
        /\ fn_stage = "parsed"
              => fn_ret.destinationChainId = fn_call.destinationChainId
        /\ fn_stage = "posted"
              => IntOf(fn_ret.destinationChainId) = fn_call.destinationChainId

\* C18 witness: the body for a log whose amount is 2^200 + 1 has been made.
C18_Witness ==
    /\ fn_call.fn = "parse"
    /\ fn_stage = "posted"
    /\ fn_call.amount = Word(26, 1, 1)
    /\ fn_ret.amount = [TwoPow200Digits EXCEPT ![61] = 7]

\* Two Decimals are equal as numbers: trailing zeros of the coefficient
\* count as exponent.
RECURSIVE Normal(_)
Normal(d) ==
    IF Len(d.digits) > 1 /\ d.digits[Len(d.digits)] = 0
    THEN Normal(Dec(SubSeq(d.digits, 1, Len(d.digits) - 1), d.exp + 1))
    ELSE IF d.digits = <<0>> THEN Dec(<<0>>, 0)
    ELSE d
NumEq(a, b) == Normal(a) = Normal(b)

\* C19: convert_eth_unit(x, u, u) equals x for every unit u and every
\* integer x, and converting a -> wei and then wei -> b equals converting
\* a -> b.
C19_IdentityAndThroughBase ==
    (fn_call.fn = "convert" /\ fn_stage = "returned" /\ fn_ret.error = "none") =>
        /\ lower(fn_call.from_unit) = lower(fn_call.to_unit)
              => NumEq(fn_ret, Dec(str(fn_call.value.int), 0))
        /\ NumEq(fn_ret,
                 convert_eth_unit(
                     PyDecimal(convert_eth_unit(fn_call.value, fn_call.from_unit, "wei")),
                     "wei", fn_call.to_unit))

====
